---- MODULE Spec2Model ----
(***************************************************************************)
(* The booking workflow of statePatternExample.ts: a Context holding one   *)
(* AbstractState handler (Open, Pending, Booked, Cancelled), the handlers' *)
(* book()/cancel() methods, and the one-shot setTimeout callback that a    *)
(* PendingState schedules in its constructor.                              *)
(* Beside it, three of the repository's other examples: the DogInvoker of  *)
(* the command example, the Observable of observerPatternExample.ts and    *)
(* the RoundRobinCondimentFactory of the factory example.                  *)
(***************************************************************************)
EXTENDS Integers, Sequences, FiniteSets, TLC

VARIABLES
    currentState,   \* Context.currentState: the active handler object
    timers,         \* callbacks scheduled by setTimeout and not yet run,
                    \* in the order of their scheduling
    nextObj,        \* identity of the next object created by `new`
    bookingId,      \* the id drawn by OpenState.book (None before that)
    hist,           \* the last HistLen operations, latest first
    dogCommandsToExecute,   \* DogInvoker: stack of commands not yet executed
    dogCommandsExecuted,    \* DogInvoker: stack of commands executed
    isLegLifted,            \* DogReciever.isLegLifted, for every receiver
    invokerHist,            \* the last HistLen DogInvoker calls, latest first
    observers,              \* Observable.observers
    observableLast,         \* the last Observable call
    lastCondimentCreated,   \* RoundRobinCondimentFactory.lastCondimentCreated
    created,                \* number of createCondiment calls made
    returned                \* what the last createCondiment call returned

\* the variables of the booking workflow
workflowVars == <<currentState, timers, nextObj, bookingId, hist>>

\* the variables of the DogInvoker example
invokerVars ==
    <<dogCommandsToExecute, dogCommandsExecuted, isLegLifted, invokerHist>>

\* the variables of the Observable example
observableVars == <<observers, observableLast>>

\* the variables of the condiment factory example
factoryVars == <<lastCondimentCreated, created, returned>>

vars == <<workflowVars, invokerVars, observableVars, factoryVars>>

----------------------------------------------------------------------------
(* Bounds *)

\* number of handler objects a behaviour may create
MaxObjects == 8

\* number of distinct outcomes of Math.random() * 100 that are explored
NumIds == 3

\* number of past operations remembered in hist
HistLen == 3

\* callers outside the workflow construct handlers only among the first
\* MaxCallerObjects objects of a behaviour
MaxCallerObjects == 4

\* number of DogReciever objects
NumDogs == 2

\* number of entries the two stacks of a DogInvoker may hold together
MaxCommands == 3

\* number of Observer objects
NumObservers == 3

\* length the observer list may reach
MaxObservers == 3

\* number of createCondiment calls made on a factory
MaxCreated == 120

----------------------------------------------------------------------------
(* Values *)

\* a JavaScript number n
Num(n) == [type |-> "number", val |-> n]

\* the JavaScript value undefined (a declared field that was never assigned)
Undefined == [type |-> "undefined"]

\* a JavaScript boolean b
Bool(b) == [type |-> "boolean", val |-> b]

\* no value: no booking made, no callback run, the slot empty
None == [type |-> "none"]

\* what is recorded as the response of an operation that returns no string
NoReturn == "(nothing returned)"

\* the values Math.random() * 100 may return
RandomIds == {Num(n) : n \in 0..(NumIds - 1)}

\* `${v}` in a template literal
TemplateString(v) ==
    IF v = Undefined THEN "undefined" ELSE ToString(v.val)

----------------------------------------------------------------------------
(* Handler objects. `inst` is the object's identity. *)

\* new CancelledState(oldID, context)
CancelledState_new(oldID, inst) ==
    [kind |-> "Cancelled", inst |-> inst, oldID |-> oldID]

\* new OpenState(context)
OpenState_new(inst) ==
    [kind |-> "Open", inst |-> inst]

\* new BookedState(id, context): the constructor stores the context only,
\* the field `id` is declared and never assigned
BookedState_new(id, inst) ==
    [kind |-> "Booked", inst |-> inst, id |-> Undefined]

\* new PendingState(id, context): the object has no fields of its own
PendingState_new(id, inst) ==
    [kind |-> "Pending", inst |-> inst]

\* the callback PendingState's constructor hands to setTimeout; its closure
\* captures id (and the context); owner is the PendingState under construction
PendingState_timeout(id, inst) ==
    [owner |-> inst, id |-> id]

----------------------------------------------------------------------------
(* What a method call does: the string it returns, the handler it passes   *)
(* to context.setCurrentState (<<>> when it makes no such call) and the    *)
(* callbacks it hands to setTimeout, in order.                             *)

Outcome(ret, set, sched) == [ret |-> ret, set |-> set, sched |-> sched]

\* a cancel() of CancelledState that reopens the workflow
CancelledState_cancel_reopening(self, inst, rnd) ==
    Outcome("You've already cancelled this!", <<OpenState_new(inst)>>, <<>>)

\* CancelledState.cancel()
CancelledState_cancel(self, inst, rnd) ==
    Outcome("You've already cancelled this!", <<>>, <<>>)

\* a book() of CancelledState that schedules no completion
CancelledState_book_untimed(self, inst, rnd) ==
    Outcome("Rebooked using old ID: " \o TemplateString(self.oldID),
            <<PendingState_new(self.oldID, inst)>>, <<>>)

\* CancelledState.book()
CancelledState_book(self, inst, rnd) ==
    Outcome("Rebooked using old ID: " \o TemplateString(self.oldID),
            <<PendingState_new(self.oldID, inst)>>,
            <<PendingState_timeout(self.oldID, inst)>>)

\* OpenState.cancel()
OpenState_cancel(self, inst, rnd) ==
    Outcome("You haven't booked anything yet", <<>>, <<>>)

\* a book() of OpenState that reports the id and does not pass it on
OpenState_book_unseeded(self, inst, rnd) ==
    LET id == rnd
    IN  Outcome("Event booked with id: " \o TemplateString(id),
                <<PendingState_new(Undefined, inst)>>,
                <<PendingState_timeout(Undefined, inst)>>)

\* OpenState.book(); rnd is the value of Math.random() * 100
OpenState_book(self, inst, rnd) ==
    LET id == rnd
    IN  Outcome("Event booked with id: " \o TemplateString(id),
                <<PendingState_new(id, inst)>>,
                <<PendingState_timeout(id, inst)>>)

\* a cancel() of BookedState that gives the booking up altogether
BookedState_cancel_reopening(self, inst, rnd) ==
    Outcome("Event cancelled", <<OpenState_new(inst)>>, <<>>)

\* BookedState.cancel()
BookedState_cancel(self, inst, rnd) ==
    Outcome("Event cancelled", <<CancelledState_new(self.id, inst)>>, <<>>)

\* a book() of BookedState that books again
BookedState_book_again(self, inst, rnd) ==
    Outcome("You've already booked this event!",
            <<PendingState_new(self.id, inst)>>,
            <<PendingState_timeout(self.id, inst)>>)

\* BookedState.book()
BookedState_book(self, inst, rnd) ==
    Outcome("You've already booked this event!", <<>>, <<>>)

\* PendingState.cancel()
PendingState_cancel(self, inst, rnd) ==
    Outcome("Please wait for booking to load before performing an action!",
            <<>>, <<>>)

\* a book() of PendingState that starts the delay again
PendingState_book_rescheduling(self, inst, rnd) ==
    Outcome("Please wait for booking to load before performing an action!",
            <<>>, <<PendingState_timeout(Undefined, self.inst)>>)

\* PendingState.book()
PendingState_book(self, inst, rnd) ==
    Outcome("Please wait for booking to load before performing an action!",
            <<>>, <<>>)

\* a callback scheduled with setInterval in place of setTimeout: it stays
\* scheduled after it ran
PendingState_onTimeout_repeating(t, inst) ==
    Outcome(NoReturn, <<BookedState_new(t.id, inst)>>, <<t>>)

\* the arrow function run by setTimeout after BOOKING_DELAY: it calls
\* context.setCurrentState(new BookedState(id, context)) without a test
PendingState_onTimeout(t, inst) ==
    Outcome(NoReturn, <<BookedState_new(t.id, inst)>>, <<>>)

\* AbstractState.book(), dispatched on the class of the receiver
book(self, inst, rnd) ==
    CASE self.kind = "Cancelled" -> CancelledState_book(self, inst, rnd)
      [] self.kind = "Open"      -> OpenState_book(self, inst, rnd)
      [] self.kind = "Booked"    -> BookedState_book(self, inst, rnd)
      [] self.kind = "Pending"   -> PendingState_book(self, inst, rnd)

\* AbstractState.cancel(), dispatched on the class of the receiver
cancel(self, inst, rnd) ==
    CASE self.kind = "Cancelled" -> CancelledState_cancel(self, inst, rnd)
      [] self.kind = "Open"      -> OpenState_cancel(self, inst, rnd)
      [] self.kind = "Booked"    -> BookedState_cancel(self, inst, rnd)
      [] self.kind = "Pending"   -> PendingState_cancel(self, inst, rnd)

\* a setCurrentState whose assignment is lost
setCurrentState_keeping(old, newState) == old

\* a setCurrentState that empties the slot
setCurrentState_emptying(old, newState) == None

\* Context.setCurrentState(newState): the value of currentState afterwards
setCurrentState(old, newState) == newState

----------------------------------------------------------------------------
(* The state machine *)

\* the record of one operation kept in hist: the operation, what it
\* returned, the callback that ran (None for a call) and the state before it
Event(op, out, fired) ==
    [op |-> op, ret |-> out.ret, fired |-> fired,
     pre |-> currentState, preTimers |-> timers, preObj |-> nextObj]

Remember(e) ==
    SubSeq(<<e>> \o hist, 1,
           IF Len(hist) < HistLen THEN Len(hist) + 1 ELSE HistLen)

\* objects the outcome needs: the handler it installs, and for a Pending
\* handler the Booked handler its callback will create
Room(out) ==
    IF out.set = <<>> THEN 0
    ELSE IF out.set[1].kind = "Pending" THEN 2 ELSE 1

\* the effect on the program's state of an operation with outcome out,
\* started with the callbacks `pending` still scheduled
Apply(op, out, fired, pending) ==
    /\ nextObj + Room(out) <= MaxObjects + 1
    /\ currentState' = IF out.set = <<>> THEN currentState
                       ELSE setCurrentState(currentState, out.set[1])
    /\ timers' = pending \o out.sched
    /\ nextObj' = nextObj + Len(out.set)
    /\ hist' = Remember(Event(op, out, fired))
    /\ UNCHANGED <<invokerVars, observableVars, factoryVars>>

\* new Context(): currentState = new OpenState(this);
\* new DogInvoker(): both stacks empty; new DogReciever(): isLegLifted has
\* no initializer; new Observable(): observers = [];
\* new RoundRobinCondimentFactory(): lastCondimentCreated has no initializer
Init ==
    /\ currentState = OpenState_new(1)
    /\ timers = <<>>
    /\ nextObj = 2
    /\ bookingId = None
    /\ hist = <<>>
    /\ dogCommandsToExecute = <<>>
    /\ dogCommandsExecuted = <<>>
    /\ isLegLifted = [d \in 1..NumDogs |-> Undefined]
    /\ invokerHist = <<>>
    /\ observers = <<>>
    /\ observableLast = None
    /\ lastCondimentCreated = Undefined
    /\ created = 0
    /\ returned = None

\* requestAction(): delegates to currentState.book()
requestAction ==
    \E rnd \in RandomIds :
        /\ Apply("book", book(currentState, nextObj, rnd), None, timers)
        /\ bookingId' = IF currentState.kind = "Open" THEN rnd ELSE bookingId

\* requestCancel(): delegates to currentState.cancel()
requestCancel ==
    \E rnd \in RandomIds :
        /\ Apply("cancel", cancel(currentState, nextObj, rnd), None, timers)
        /\ UNCHANGED bookingId

\* the callback scheduled first runs (all callbacks have the same delay
\* BOOKING_DELAY, so they run in the order of their scheduling); it is
\* one-shot and leaves the queue
timerFires ==
    /\ timers # <<>>
    /\ Apply("timer", PendingState_onTimeout(Head(timers), nextObj),
             Head(timers), Tail(timers))
    /\ UNCHANGED bookingId

Next == requestAction \/ requestCancel \/ timerFires

Spec == Init /\ [][Next]_vars

\* the event loop runs every callback whose delay has elapsed
FairSpec == Spec /\ WF_vars(timerFires)

\* a caller outside the workflow uses the public method
\* Context.setCurrentState with a handler it constructed itself
callerSetsState ==
    \E kind \in {"Open", "Pending", "Booked", "Cancelled"}, id \in RandomIds :
        /\ nextObj <= MaxCallerObjects
        /\ Apply("set",
                 CASE kind = "Open" ->
                        Outcome(NoReturn, <<OpenState_new(nextObj)>>, <<>>)
                   [] kind = "Pending" ->
                        Outcome(NoReturn, <<PendingState_new(id, nextObj)>>,
                                <<PendingState_timeout(id, nextObj)>>)
                   [] kind = "Booked" ->
                        Outcome(NoReturn, <<BookedState_new(id, nextObj)>>, <<>>)
                   [] kind = "Cancelled" ->
                        Outcome(NoReturn, <<CancelledState_new(id, nextObj)>>, <<>>),
                 None, timers)
        /\ UNCHANGED bookingId

NextPublic == Next \/ callerSetsState

\* the workflow with setCurrentState open to every caller, as the class
\* declares it
SpecPublic == Init /\ [][NextPublic]_vars

----------------------------------------------------------------------------
(* Vocabulary of the properties *)

Kinds == {"Open", "Pending", "Booked", "Cancelled"}

PleaseWait == "Please wait for booking to load before performing an action!"

\* the last operation was a call of op made while a handler of kind k was active
Called(op, k) ==
    /\ Len(hist) >= 1
    /\ hist[1].op = op
    /\ hist[1].pre.kind = k

\* the operation before the last was a call of op made in kind k
CalledBefore(op, k) ==
    /\ Len(hist) >= 2
    /\ hist[2].op = op
    /\ hist[2].pre.kind = k

\* the active handler is a Pending created by the last call, whose callback
\* carries id x and was added to the callbacks scheduled before the call
NewPending(x) ==
    /\ currentState = PendingState_new(x, hist[1].preObj)
    /\ timers = hist[1].preTimers
                  \o <<PendingState_timeout(x, currentState.inst)>>

\* the last call left the handler and the scheduled callbacks as they were
Stayed ==
    /\ currentState = hist[1].pre
    /\ timers = hist[1].preTimers

----------------------------------------------------------------------------
(* C1: after every requestAction/requestCancel call the workflow is in     *)
(* exactly one of the four states, and the call's response and resulting   *)
(* state are those of the transition table for the state active when the   *)
(* call was processed, Booked/cancel giving Cancelled with the booking's id *)
C1_TransitionTable ==
    /\ currentState.kind \in Kinds
    /\ Called("book", "Open") =>
          \E x \in RandomIds :
              /\ NewPending(x)
              /\ hist[1].ret = "Event booked with id: " \o TemplateString(x)
    /\ Called("cancel", "Open") =>
          Stayed /\ hist[1].ret = "You haven't booked anything yet"
    /\ Called("book", "Pending") => Stayed /\ hist[1].ret = PleaseWait
    /\ Called("cancel", "Pending") => Stayed /\ hist[1].ret = PleaseWait
    /\ Called("book", "Booked") =>
          Stayed /\ hist[1].ret = "You've already booked this event!"
    /\ Called("cancel", "Booked") =>
          /\ currentState = CancelledState_new(bookingId, hist[1].preObj)
          /\ timers = hist[1].preTimers
          /\ hist[1].ret = "Event cancelled"
    /\ Called("book", "Cancelled") =>
          /\ NewPending(hist[1].pre.oldID)
          /\ hist[1].ret = "Rebooked using old ID: "
                              \o TemplateString(hist[1].pre.oldID)
    /\ Called("cancel", "Cancelled") =>
          Stayed /\ hist[1].ret = "You've already cancelled this!"

\* a cancel call has just been processed in Booked
C1_Witness == Called("cancel", "Booked")

(* C2: once Open.book has drawn the id X, every Pending, Booked and        *)
(* Cancelled state of the context carries X                                *)
C2_IdInvariance ==
    bookingId # None =>
        /\ currentState.kind = "Pending" =>
              \E i \in 1..Len(timers) :
                  timers[i] = PendingState_timeout(bookingId, currentState.inst)
        /\ currentState.kind = "Booked" => currentState.id = bookingId
        /\ currentState.kind = "Cancelled" => currentState.oldID = bookingId

\* the booking has been cancelled after a rebook
C2_Witness ==
    /\ currentState.kind = "Cancelled"
    /\ nextObj > 6

(* C3: a callback that runs when the active handler is no longer the       *)
(* Pending instance that scheduled it changes nothing, and Booked is       *)
(* installed only when that instance is still the active handler           *)
C3_IdentityGuard ==
    (Len(hist) >= 1 /\ hist[1].op = "timer") =>
        IF hist[1].pre = PendingState_new(hist[1].fired.id, hist[1].fired.owner)
        THEN currentState.kind = "Booked"
        ELSE currentState = hist[1].pre

\* a callback has just run after the context left the Pending instance
\* that scheduled it
C3_Witness ==
    /\ Len(hist) >= 1
    /\ hist[1].op = "timer"
    /\ hist[1].pre.inst # hist[1].fired.owner

\* under the event loop's fairness a Pending state always leads to a Booked
\* state (of whatever id), with no caller action needed
PendingLeadsToBooked ==
    (currentState.kind = "Pending") ~> (currentState.kind = "Booked")

(* C4: once the context has entered Pending(X), the run of that instance's *)
(* callback, which needs no caller action, leaves the context in Booked    *)
(* carrying the same id X                                                  *)
C4_DeferredCompletion ==
    (/\ Len(hist) >= 1
     /\ hist[1].op = "timer"
     /\ hist[1].pre = PendingState_new(hist[1].fired.id, hist[1].fired.owner))
        => /\ currentState.kind = "Booked"
           /\ currentState.id = hist[1].fired.id
           /\ timers = <<>>

\* the callback of a Pending instance has just installed a Booked handler
C4_Witness ==
    /\ Len(hist) >= 1
    /\ hist[1].op = "timer"
    /\ hist[1].pre.kind = "Pending"
    /\ currentState.kind = "Booked"

(* C5: book in Open draws an id X, installs a new Pending handler whose    *)
(* callback carries X and is scheduled by the time the call returns, and   *)
(* returns "Event booked with id: X"                                       *)
C5_OpenBook ==
    Called("book", "Open") =>
        \E x \in RandomIds :
            /\ bookingId = x
            /\ NewPending(x)
            /\ hist[1].ret = "Event booked with id: " \o TemplateString(x)

\* book has just been called in Open
C5_Witness ==
    /\ Called("book", "Open")
    /\ currentState.kind = "Pending"

(* C6: cancel in Booked(X) returns "Event cancelled" and installs          *)
(* Cancelled(X); a book call right after it returns                        *)
(* "Rebooked using old ID: X" and installs Pending(X)                      *)
C6_CancelThenRebook ==
    /\ Called("cancel", "Booked") =>
          /\ hist[1].ret = "Event cancelled"
          /\ currentState.kind = "Cancelled"
          /\ currentState.oldID = bookingId
    /\ (CalledBefore("cancel", "Booked") /\ Called("book", "Cancelled")) =>
          /\ hist[1].ret = "Rebooked using old ID: " \o TemplateString(bookingId)
          /\ NewPending(bookingId)

\* the booking has just been cancelled and booked again
C6_Witness ==
    /\ CalledBefore("cancel", "Booked")
    /\ Called("book", "Cancelled")

(* C7: a book or cancel call made in Pending leaves the same Pending       *)
(* instance active, leaves the scheduled callbacks exactly as they were    *)
(* and returns the "please wait" message                                   *)
C7_PendingFrame ==
    (Called("book", "Pending") \/ Called("cancel", "Pending")) =>
        /\ currentState = hist[1].pre
        /\ timers = hist[1].preTimers
        /\ \E x \in RandomIds \cup {Undefined} :
              timers = <<PendingState_timeout(x, currentState.inst)>>
        /\ hist[1].ret = PleaseWait

\* book and cancel have both just been called in Pending
C7_Witness ==
    /\ Called("book", "Pending")
    /\ CalledBefore("cancel", "Pending")

(* C8: cancel in Booked installs Cancelled; a second cancel right after it *)
(* returns the "already cancelled" message and leaves the state as the     *)
(* first cancel left it                                                    *)
C8_CancelIdempotent ==
    /\ Called("cancel", "Booked") => currentState.kind = "Cancelled"
    /\ (CalledBefore("cancel", "Booked") /\ Len(hist) >= 1
          /\ hist[1].op = "cancel") =>
          /\ hist[1].pre.kind = "Cancelled"
          /\ hist[1].ret = "You've already cancelled this!"
          /\ Stayed

\* cancel has just been called twice in a row, the first time in Booked
C8_Witness ==
    /\ CalledBefore("cancel", "Booked")
    /\ Called("cancel", "Cancelled")

\* the strings the handlers' methods return
Responses ==
    {"You've already cancelled this!", "You haven't booked anything yet",
     "Event cancelled", "You've already booked this event!", PleaseWait}
    \cup {"Rebooked using old ID: " \o TemplateString(x) :
              x \in RandomIds \cup {Undefined}}
    \cup {"Event booked with id: " \o TemplateString(x) : x \in RandomIds}

(* C9: every book and cancel call returns a response string, and each of   *)
(* the four illegal actions (cancel in Open, book in Booked, cancel in     *)
(* Pending, cancel in Cancelled) leaves the active handler unchanged       *)
C9_NoFailure ==
    /\ (Len(hist) >= 1 /\ hist[1].op \in {"book", "cancel"}) =>
          hist[1].ret \in Responses
    /\ (\/ Called("cancel", "Open")
        \/ Called("book", "Booked")
        \/ Called("cancel", "Pending")
        \/ Called("cancel", "Cancelled")) => Stayed

\* an illegal action has just been made in Cancelled, after one in Booked
C9_Witness ==
    /\ Called("cancel", "Cancelled")
    /\ Len(hist) >= 3
    /\ hist[3].op = "book"
    /\ hist[3].pre.kind = "Booked"

\* h is a constructed handler of one of the four classes
IsHandler(h) ==
    /\ h # None
    /\ h # Undefined
    /\ h.kind \in Kinds
    /\ h.inst \in 1..(nextObj - 1)
    /\ h \in {OpenState_new(h.inst), PendingState_new(Undefined, h.inst)}
             \cup {CancelledState_new(x, h.inst) : x \in RandomIds \cup {Undefined}}
             \cup {BookedState_new(x, h.inst) : x \in RandomIds \cup {Undefined}}

(* C10: the context starts in Open and its active-state slot always holds  *)
(* one handler of class Open, Pending, Booked or Cancelled                 *)
C10_AlwaysOneHandler ==
    /\ IsHandler(currentState)
    /\ hist = <<>> => currentState.kind = "Open"

\* the slot has been replaced by a call and by a callback
C10_Witness ==
    /\ currentState.kind = "Cancelled"
    /\ Len(hist) >= 2
    /\ hist[2].op = "timer"

----------------------------------------------------------------------------
\* the operation recorded in e installs a new handler
Transitions(e) ==
    \/ e.op = "timer"
    \/ e.op = "book" /\ e.pre.kind \in {"Open", "Cancelled"}
    \/ e.op = "cancel" /\ e.pre.kind = "Booked"

\* the class of the handler that operation installs
SuccessorKind(e) ==
    CASE e.op = "timer" -> "Booked"
      [] e.op = "book" -> "Pending"
      [] e.op = "cancel" -> "Cancelled"

\* handler h is what the operation recorded in e left in the slot
LeftBy(e, h) ==
    IF Transitions(e)
    THEN h.inst = e.preObj /\ h.kind = SuccessorKind(e)
    ELSE h = e.pre

\* the response recorded in e is the one the class of e.pre gives to e.op
AnsweredBy(e) ==
    CASE e.op = "book" /\ e.pre.kind = "Open" ->
            \E x \in RandomIds :
                e.ret = "Event booked with id: " \o TemplateString(x)
      [] e.op = "book" /\ e.pre.kind = "Pending" -> e.ret = PleaseWait
      [] e.op = "book" /\ e.pre.kind = "Booked" ->
            e.ret = "You've already booked this event!"
      [] e.op = "book" /\ e.pre.kind = "Cancelled" ->
            \E x \in RandomIds \cup {Undefined} :
                e.ret = "Rebooked using old ID: " \o TemplateString(x)
      [] e.op = "cancel" /\ e.pre.kind = "Open" ->
            e.ret = "You haven't booked anything yet"
      [] e.op = "cancel" /\ e.pre.kind = "Pending" -> e.ret = PleaseWait
      [] e.op = "cancel" /\ e.pre.kind = "Booked" -> e.ret = "Event cancelled"
      [] e.op = "cancel" /\ e.pre.kind = "Cancelled" ->
            e.ret = "You've already cancelled this!"
      [] OTHER -> e.ret = NoReturn

(* C11: the handler an operation installs is in the slot when the          *)
(* operation returns and is the handler that answers the next operation;   *)
(* when a call and the callback of a Pending instance race, the responses  *)
(* and the final state are those of one of the two sequential orders       *)
C11_AtomicSlot ==
    /\ Len(hist) >= 1 =>
          /\ LeftBy(hist[1], currentState)
          /\ AnsweredBy(hist[1])
    /\ Len(hist) >= 2 => LeftBy(hist[2], hist[1].pre)
    /\ (Len(hist) >= 2 /\ hist[2].pre.kind = "Pending"
          /\ hist[2].op \in {"book", "cancel"} /\ hist[1].op = "timer") =>
          /\ hist[2].ret = PleaseWait
          /\ currentState.kind = "Booked"
          /\ timers = <<>>
    /\ (Len(hist) >= 2 /\ hist[2].pre.kind = "Pending"
          /\ hist[2].op = "timer" /\ hist[1].op = "book") =>
          /\ hist[1].ret = "You've already booked this event!"
          /\ currentState.kind = "Booked"
          /\ currentState.inst = hist[2].preObj
    /\ (Len(hist) >= 2 /\ hist[2].pre.kind = "Pending"
          /\ hist[2].op = "timer" /\ hist[1].op = "cancel") =>
          /\ hist[1].ret = "Event cancelled"
          /\ currentState.kind = "Cancelled"
          /\ currentState.inst = hist[1].preObj

\* a cancel call and the callback of a Pending instance have raced, the
\* callback first
C11_Witness ==
    /\ Len(hist) >= 2
    /\ hist[2].pre.kind = "Pending"
    /\ hist[2].op = "timer"
    /\ hist[1].op = "cancel"

(* C12: a callback is scheduled exactly when the active handler is         *)
(* Pending, at most one is scheduled, it belongs to the active Pending     *)
(* instance, and once the successor of a Pending instance is installed no  *)
(* callback of that instance remains scheduled                             *)
C12_NoOrphanTimer ==
    /\ timers # <<>> <=> currentState.kind = "Pending"
    /\ Len(timers) <= 1
    /\ \A i \in 1..Len(timers) : timers[i].owner = currentState.inst
    /\ \A j \in 1..Len(hist) :
          (hist[j].pre.kind = "Pending" /\ hist[j].pre # currentState) =>
              \A i \in 1..Len(timers) : timers[i].owner # hist[j].pre.inst

\* a rebooked Pending instance is active, the first one has been succeeded
C12_Witness ==
    /\ currentState.kind = "Pending"
    /\ Len(timers) = 1
    /\ timers[1].owner > 2

\* in the current state a call or a scheduled callback installs a new handler
CanChange ==
    \/ timers # <<>>
    \/ \E rnd \in RandomIds : book(currentState, nextObj, rnd).set # <<>>
    \/ \E rnd \in RandomIds : cancel(currentState, nextObj, rnd).set # <<>>

(* C13: book in Cancelled installs a new Pending instance with a newly     *)
(* scheduled callback, after which the context eventually is Booked again; *)
(* no state is terminal: in every state a call or a callback can still     *)
(* change the state                                                        *)
C13_RebookRestarts ==
    /\ [](Called("book", "Cancelled") => NewPending(hist[1].pre.oldID))
    /\ Called("book", "Cancelled") ~> (currentState.kind = "Booked")
    /\ []CanChange

\* the booking has been cancelled, rebooked and completed again
C13_Witness ==
    /\ currentState.kind = "Booked"
    /\ Len(hist) >= 2
    /\ hist[1].op = "timer"
    /\ hist[2].op = "book"
    /\ hist[2].pre.kind = "Cancelled"
    /\ hist[2].pre.inst >= 4

(* C15: once the context has left Open no step brings it back, so an id   *)
(* is drawn at most once, and every Pending installed after that is made   *)
(* by book in Cancelled from the id stored there                           *)
C15_OpenNeverReentered ==
    [][/\ currentState.kind # "Open" => currentState'.kind # "Open"
       /\ bookingId # None => bookingId' = bookingId
       /\ (currentState.kind # "Open" /\ currentState'.kind = "Pending"
             /\ currentState' # currentState) =>
             /\ currentState.kind = "Cancelled"
             /\ timers' = <<PendingState_timeout(currentState.oldID,
                                                 currentState'.inst)>>]_vars

\* a rebook has just been made, long after Open was left
C15_Witness ==
    /\ Called("book", "Cancelled")
    /\ currentState.kind = "Pending"
    /\ bookingId # None

----------------------------------------------------------------------------
(* The command example: DogReciever, LiftLegCommand, DogInvoker *)

Dogs == 1..NumDogs

\* new LiftLegCommand(dogReciever)
LiftLegCommand_new(dogReciever) ==
    [class |-> "LiftLegCommand", dogReciever |-> dogReciever]

\* DogReciever.liftLeg() on receiver d
DogReciever_liftLeg(legs, d) == [legs EXCEPT ![d] = Bool(TRUE)]

\* DogReciever.dropLeg() on receiver d
DogReciever_dropLeg(legs, d) == [legs EXCEPT ![d] = Bool(FALSE)]

\* a[a.length - 1], and the value of a.pop(): undefined for an empty array
ArrayLast(a) == IF a = <<>> THEN Undefined ELSE a[Len(a)]

\* the array after a.pop(): an empty array stays empty
ArrayPopped(a) == IF a = <<>> THEN a ELSE SubSeq(a, 1, Len(a) - 1)

\* the invoker after a call: its stacks, the receivers, and whether the
\* call ended by a TypeError (a method called on undefined)
InvokerResult(toExecute, executed, legs, threw) ==
    [toExecute |-> toExecute, executed |-> executed, legs |-> legs,
     threw |-> threw]

\* DogInvoker.executeCommand(): the top command's execute() runs first, and
\* throws when the top is undefined; then the top is popped and pushed
DogInvoker_executeCommand(toExecute, executed, legs) ==
    LET top == ArrayLast(toExecute)
    IN  IF top = Undefined
        THEN InvokerResult(toExecute, executed, legs, TRUE)
        ELSE InvokerResult(ArrayPopped(toExecute),
                           Append(executed, ArrayLast(toExecute)),
                           DogReciever_liftLeg(legs, top.dogReciever),
                           FALSE)

\* DogInvoker.undoCommand(): executed.pop() is pushed first, whatever it is;
\* then unexecute() is called on the new top, and throws when it is undefined
DogInvoker_undoCommand(toExecute, executed, legs) ==
    LET pushed == Append(toExecute, ArrayLast(executed))
        top    == ArrayLast(pushed)
    IN  IF top = Undefined
        THEN InvokerResult(pushed, ArrayPopped(executed), legs, TRUE)
        ELSE InvokerResult(pushed, ArrayPopped(executed),
                           DogReciever_dropLeg(legs, top.dogReciever),
                           FALSE)

\* DogInvoker.pushDogCommand(dogCommand)
DogInvoker_pushDogCommand(toExecute, executed, legs, dogCommand) ==
    InvokerResult(Append(toExecute, dogCommand), executed, legs, FALSE)

\* the record of one DogInvoker call kept in invokerHist
InvokerEvent(op, r) ==
    [op |-> op, threw |-> r.threw, preToExecute |-> dogCommandsToExecute,
     preExecuted |-> dogCommandsExecuted, preLegs |-> isLegLifted]

\* the effect of a DogInvoker call with result r
InvokerApply(op, r) ==
    /\ Len(r.toExecute) + Len(r.executed) <= MaxCommands
    /\ dogCommandsToExecute' = r.toExecute
    /\ dogCommandsExecuted' = r.executed
    /\ isLegLifted' = r.legs
    /\ invokerHist' =
          SubSeq(<<InvokerEvent(op, r)>> \o invokerHist, 1,
                 IF Len(invokerHist) < HistLen THEN Len(invokerHist) + 1
                 ELSE HistLen)

pushDogCommand ==
    \E d \in Dogs :
        /\ InvokerApply("push",
              DogInvoker_pushDogCommand(dogCommandsToExecute,
                  dogCommandsExecuted, isLegLifted, LiftLegCommand_new(d)))
        /\ UNCHANGED <<workflowVars, observableVars, factoryVars>>

executeCommand ==
    /\ InvokerApply("execute",
          DogInvoker_executeCommand(dogCommandsToExecute, dogCommandsExecuted,
                                    isLegLifted))
    /\ UNCHANGED <<workflowVars, observableVars, factoryVars>>

undoCommand ==
    /\ InvokerApply("undo",
          DogInvoker_undoCommand(dogCommandsToExecute, dogCommandsExecuted,
                                 isLegLifted))
    /\ UNCHANGED <<workflowVars, observableVars, factoryVars>>

NextInvoker == pushDogCommand \/ executeCommand \/ undoCommand

SpecInvoker == Init /\ [][NextInvoker]_vars

\* the last DogInvoker call was op
Invoked(op) == Len(invokerHist) >= 1 /\ invokerHist[1].op = op

\* the DogInvoker call before the last was op
InvokedBefore(op) == Len(invokerHist) >= 2 /\ invokerHist[2].op = op

\* stack a holds at least one command
HasCommand(a) == \E i \in 1..Len(a) : a[i] # Undefined

(* C14: with at least one command waiting, executeCommand moves exactly    *)
(* the top command from the to-execute stack to the executed stack, the    *)
(* two stacks keeping their total size, and an undoCommand right after it  *)
(* restores both stacks and leaves the command's receiver with its leg     *)
(* dropped                                                                 *)
C14_UndoRoundTrip ==
    /\ (Invoked("execute") /\ HasCommand(invokerHist[1].preToExecute)) =>
          LET e == invokerHist[1]
          IN  /\ dogCommandsToExecute = ArrayPopped(e.preToExecute)
              /\ dogCommandsExecuted =
                    Append(e.preExecuted, ArrayLast(e.preToExecute))
              /\ Len(dogCommandsToExecute) + Len(dogCommandsExecuted)
                    = Len(e.preToExecute) + Len(e.preExecuted)
    /\ (InvokedBefore("execute") /\ HasCommand(invokerHist[2].preToExecute)
          /\ Invoked("undo")) =>
          LET e == invokerHist[2]
          IN  /\ dogCommandsToExecute = e.preToExecute
              /\ dogCommandsExecuted = e.preExecuted
              /\ ArrayLast(e.preToExecute) # Undefined
              /\ isLegLifted[ArrayLast(e.preToExecute).dogReciever]
                    = Bool(FALSE)

\* executeCommand then undoCommand have just been called with a command
\* waiting under another one
C14_Witness ==
    /\ InvokedBefore("execute")
    /\ Len(invokerHist[2].preToExecute) >= 2
    /\ HasCommand(invokerHist[2].preToExecute)
    /\ Invoked("undo")

(* C17: undoCommand with no command executed, and executeCommand with no   *)
(* command waiting, leave both stacks as they were                         *)
C17_EmptyStacks ==
    ((Invoked("undo") /\ invokerHist[1].preExecuted = <<>>)
       \/ (Invoked("execute") /\ invokerHist[1].preToExecute = <<>>)) =>
        /\ dogCommandsToExecute = invokerHist[1].preToExecute
        /\ dogCommandsExecuted = invokerHist[1].preExecuted

\* undoCommand has just been called with no command executed
C17_Witness ==
    /\ Invoked("undo")
    /\ invokerHist[1].preExecuted = <<>>

----------------------------------------------------------------------------
(* The observer example: Observable *)

Observers == 1..NumObservers

\* a.lastIndexOf(x): the greatest 0-based index holding x, or -1
ArrayLastIndexOf(a, x) ==
    IF \E i \in 1..Len(a) : a[i] = x
    THEN (CHOOSE i \in 1..Len(a) :
              a[i] = x /\ \A j \in (i + 1)..Len(a) : a[j] # x) - 1
    ELSE 0 - 1

\* the array after a.splice(start, deleteCount): a negative start counts
\* from the end, and the count is clamped to what is left after the start
ArraySplice(a, start, deleteCount) ==
    LET len   == Len(a)
        from  == IF start < 0
                 THEN (IF len + start > 0 THEN len + start ELSE 0)
                 ELSE (IF start < len THEN start ELSE len)
        wanted == IF deleteCount > 0 THEN deleteCount ELSE 0
        count == IF wanted < len - from THEN wanted ELSE len - from
    IN  SubSeq(a, 1, from) \o SubSeq(a, from + count + 1, len)

\* Observable.addObserver(observer)
Observable_addObserver(obs, observer) == Append(obs, observer)

\* Observable.removeObserver(observer)
Observable_removeObserver(obs, observer) ==
    LET indexToRemove == ArrayLastIndexOf(obs, observer)
    IN  ArraySplice(obs, indexToRemove, 1)

\* Observable.countObservers()
Observable_countObservers(obs) == Len(obs)

\* Observable.clearObservers(): observers.length = 0
Observable_clearObservers(obs) == <<>>

\* a call of op with argument observer (0 when it takes none), leaving
\* the list as after
ObservableApply(op, observer, after) ==
    /\ observers' = after
    /\ observableLast' =
          [op |-> op, observer |-> observer, pre |-> observers,
           count |-> Observable_countObservers(observers)]

addObserver ==
    \E o \in Observers :
        /\ Len(observers) < MaxObservers
        /\ ObservableApply("add", o, Observable_addObserver(observers, o))
        /\ UNCHANGED <<workflowVars, invokerVars, factoryVars>>

removeObserver ==
    \E o \in Observers :
        /\ ObservableApply("remove", o,
                           Observable_removeObserver(observers, o))
        /\ UNCHANGED <<workflowVars, invokerVars, factoryVars>>

clearObservers ==
    /\ ObservableApply("clear", 0, Observable_clearObservers(observers))
    /\ UNCHANGED <<workflowVars, invokerVars, factoryVars>>

NextObservable == addObserver \/ removeObserver \/ clearObservers

SpecObservable == Init /\ [][NextObservable]_vars

\* observer o is in list a
Registered(a, o) == \E i \in 1..Len(a) : a[i] = o

\* list a without its entry at the 1-based position i
WithoutEntry(a, i) == SubSeq(a, 1, i - 1) \o SubSeq(a, i + 1, Len(a))

(* C16: removeObserver removes the last occurrence of a registered         *)
(* observer, the other entries keeping their order, and leaves the list    *)
(* and its count unchanged when the observer is not registered             *)
C16_RemoveOnlyGiven ==
    (observableLast # None /\ observableLast.op = "remove") =>
        LET pre == observableLast.pre
            o   == observableLast.observer
        IN  IF Registered(pre, o)
            THEN \E i \in 1..Len(pre) :
                    /\ pre[i] = o
                    /\ \A j \in (i + 1)..Len(pre) : pre[j] # o
                    /\ observers = WithoutEntry(pre, i)
            ELSE /\ observers = pre
                 /\ Observable_countObservers(observers) = observableLast.count

\* removeObserver has just been called with an observer that is not in a
\* list that holds others
C16_Witness ==
    /\ observableLast # None
    /\ observableLast.op = "remove"
    /\ observableLast.pre # <<>>
    /\ ~Registered(observableLast.pre, observableLast.observer)

----------------------------------------------------------------------------
(* The factory example: RoundRobinCondimentFactory *)

\* new Ketchup(), new Mustard(), new Mayo(): an object of class c
Condiment_new(c, inst) == [class |-> c, inst |-> inst]

\* a createCondiment() that leaves out the Mustard branch
RoundRobinCondimentFactory_createCondiment_skipping(last, inst) ==
    IF last = Undefined \/ last.class = "Mayo"
    THEN Condiment_new("Ketchup", inst)
    ELSE Condiment_new("Mayo", inst)

\* RoundRobinCondimentFactory.createCondiment(): the condiment it creates,
\* stores in lastCondimentCreated and returns
RoundRobinCondimentFactory_createCondiment(last, inst) ==
    IF last = Undefined \/ last.class = "Mayo"
    THEN Condiment_new("Ketchup", inst)
    ELSE IF last.class = "Ketchup"
         THEN Condiment_new("Mustard", inst)
         ELSE Condiment_new("Mayo", inst)

createCondiment ==
    /\ created < MaxCreated
    /\ created' = created + 1
    /\ lastCondimentCreated' =
          RoundRobinCondimentFactory_createCondiment(lastCondimentCreated,
                                                     created + 1)
    /\ returned' = lastCondimentCreated'
    /\ UNCHANGED <<workflowVars, invokerVars, observableVars>>

NextFactory == createCondiment

SpecFactory == Init /\ [][NextFactory]_vars

\* the order the claim gives
RoundRobinOrder == <<"Ketchup", "Mustard", "Mayo">>

(* C18: the n-th createCondiment call on a factory returns Ketchup,        *)
(* Mustard, Mayo, Ketchup, ... in that order starting with Ketchup, and    *)
(* lastCondimentCreated is the condiment the most recent call returned     *)
C18_RoundRobin ==
    /\ created = 0 => lastCondimentCreated = Undefined
    /\ created >= 1 =>
          /\ returned.class = RoundRobinOrder[((created - 1) % 3) + 1]
          /\ returned.inst = created
          /\ lastCondimentCreated = returned

\* the cycle has wrapped around twice
C18_Witness ==
    /\ created = 7
    /\ returned.class = "Ketchup"

====
